---------------------------- MODULE Spec2Model ----------------------------
(***************************************************************************)
(* A model of src/main.py: the FREDAgent class.  One call of               *)
(* FREDAgent.answer runs think -> act -> observe -> respond inside one     *)
(* try/except.  The two external providers (the language model behind      *)
(* self.client and the statistical data provider behind self.fred) are     *)
(* the environment: each of their calls either returns a value or raises.  *)
(***************************************************************************)
EXTENDS Integers, Sequences, FiniteSets, TLC

(***************************************************************************)
(* Bounds of the model.                                                    *)
(***************************************************************************)
\* answer calls made on the one agent instance
MaxCalls == 2
\* points in an observation window returned by the data provider
MaxLen == 2

(***************************************************************************)
(* Dates.  A date is its proleptic Gregorian ordinal (1 = 0001-01-01), as  *)
(* datetime.date.toordinal(); a datetime is a record [ord, sec] of the day *)
(* and the second of the day.                                              *)
(***************************************************************************)
IsLeap(y) == y % 4 = 0 /\ (y % 100 # 0 \/ y % 400 = 0)

DaysInMonth(y, m) ==
    IF m = 2 THEN (IF IsLeap(y) THEN 29 ELSE 28)
    ELSE IF m \in {4, 6, 9, 11} THEN 30 ELSE 31

DaysBeforeMonth(y, m) ==
    <<0, 31, 59, 90, 120, 151, 181, 212, 243, 273, 304, 334>>[m]
        + (IF m > 2 /\ IsLeap(y) THEN 1 ELSE 0)

DaysBeforeYear(y) ==
    LET p == y - 1 IN p * 365 + (p \div 4) - (p \div 100) + (p \div 400)

Ymd2Ord(y, m, d) == DaysBeforeYear(y) + DaysBeforeMonth(y, m) + d

Ord2Ymd(n) ==
    LET n0   == n - 1
        n400 == n0 \div 146097
        r400 == n0 % 146097
        n100 == r400 \div 36524
        r100 == r400 % 36524
        n4   == r100 \div 1461
        r4   == r100 % 1461
        n1   == r4 \div 365
        r1   == r4 % 365
        y0   == n400 * 400 + 1 + n100 * 100 + n4 * 4 + n1
    IN  IF n1 = 4 \/ n100 = 4
        THEN [y |-> y0 - 1, m |-> 12, d |-> 31]
        ELSE LET mm == CHOOSE k \in 1..12 :
                          /\ DaysBeforeMonth(y0, k) <= r1
                          /\ r1 < DaysBeforeMonth(y0, k) + DaysInMonth(y0, k)
             IN  [y |-> y0, m |-> mm, d |-> r1 - DaysBeforeMonth(y0, mm) + 1]

\* end - timedelta(days=n): the day moves, the time of day stays
MinusDays(dt, n) == [ord |-> dt.ord - n, sec |-> dt.sec]

\* timedelta(days=365*4)
WindowDays == 365 * 4

\* a calendar-aware four-year subtraction (same month and day, four years back)
CalendarFourYearsBack(dt) ==
    LET c == Ord2Ymd(dt.ord)
        d == IF c.d > DaysInMonth(c.y - 4, c.m) THEN DaysInMonth(c.y - 4, c.m) ELSE c.d
    IN  [ord |-> Ymd2Ord(c.y - 4, c.m, d), sec |-> dt.sec]

\* start = end - timedelta(days=365*4)
WindowStart(end) == MinusDays(end, WindowDays)

Pad2(n) == IF n < 10 THEN "0" \o ToString(n) ELSE ToString(n)

Pad4(n) ==
    IF n < 10 THEN "000" \o ToString(n)
    ELSE IF n < 100 THEN "00" \o ToString(n)
    ELSE IF n < 1000 THEN "0" \o ToString(n) ELSE ToString(n)

\* Timestamp.strftime("%Y-%m-%d")
Strftime(ord) ==
    LET c == Ord2Ymd(ord) IN Pad4(c.y) \o "-" \o Pad2(c.m) \o "-" \o Pad2(c.d)

(***************************************************************************)
(* Values.  An observation value is a float with one decimal, held as its  *)
(* number of tenths (40 is 4.0).                                           *)
(***************************************************************************)
\* int(x): the fraction is dropped
IntTruncate(v) == (v \div 10) * 10

\* float(x) of a numpy float64: the same number
Float(v) == v

\* json.dumps of a float
FloatRepr(v) == ToString(v \div 10) \o "." \o ToString(v % 10)


(***************************************************************************)
(* Exceptions.  An exception is a record [type, arg]; Str is str(e).       *)
(***************************************************************************)
\* the classes raised in the model that derive from Exception
ExceptionSubclasses ==
    {"JSONDecodeError", "KeyError", "TypeError", "IndexError", "ValueError",
     "URLError", "ServerError"}

\* str(e): a KeyError shows the repr of its key, the others their message
Str(e) == IF e.type = "KeyError" THEN "'" \o e.arg \o "'" ELSE e.arg

Return(v) == [kind |-> "return", value |-> v]

Raise(t, a) == [kind |-> "raise", exc |-> [type |-> t, arg |-> a]]

(***************************************************************************)
(* The language model's replies to the Indicator Selector's prompt, and    *)
(* json.loads on them.                                                     *)
(***************************************************************************)
\* the catalogue of the data provider: the units of the series it knows
Catalog == [UNRATE |-> "Percent", GDP |-> "Billions of Dollars"]

\* series codes a reply may name: known ones, an unknown one, the empty text
ReplyCodes == DOMAIN Catalog \cup {"NOSUCHSERIES", ""}

SelectionJson(code) ==
    "{\"explanation\": \"why this helps\", \"series_code\": \"" \o code \o "\"}"

NoCodeJson == "{\"explanation\": \"why this helps\"}"

ListJson == "[\"UNRATE\"]"

MalformedJson == "UNRATE is the series to use"

ThinkReplies ==
    {SelectionJson(c) : c \in ReplyCodes} \cup {NoCodeJson, ListJson, MalformedJson}

\* json.loads(output): the parsed value, or a JSONDecodeError
JsonLoads(text) ==
    IF \E c \in ReplyCodes : text = SelectionJson(c)
    THEN Return([type  |-> "dict",
                 items |-> [explanation |-> "why this helps",
                            series_code |-> CHOOSE c \in ReplyCodes :
                                                text = SelectionJson(c)]])
    ELSE IF text = NoCodeJson
    THEN Return([type |-> "dict", items |-> [explanation |-> "why this helps"]])
    ELSE IF text = ListJson
    THEN Return([type |-> "list", items |-> <<"UNRATE">>])
    ELSE Raise("JSONDecodeError", "Expecting value: line 1 column 1 (char 0)")

\* plan.get(key, ""): a missing key reads as the empty text
GetItemDefault(plan, key) ==
    IF plan.type = "dict"
    THEN IF key \in DOMAIN plan.items
         THEN Return(plan.items[key])
         ELSE Return("")
    ELSE Raise("TypeError", "list indices must be integers or slices, not str")

\* plan[key]
GetItem(plan, key) ==
    IF plan.type = "dict"
    THEN IF key \in DOMAIN plan.items
         THEN Return(plan.items[key])
         ELSE Raise("KeyError", key)
    ELSE Raise("TypeError", "list indices must be integers or slices, not str")

\* think, from the reply's text on: json.loads, then plan['series_code']
ThinkResult(text) ==
    LET plan == JsonLoads(text)
    IN  IF plan.kind = "raise" THEN plan ELSE GetItem(plan.value, "series_code")

\* the indentation the source's triple-quoted lines carry
Indent == "                "

ThinkPrompt(question) ==
    "What FRED series code would help answer the question below?\n"
        \o Indent \o "Question: " \o question \o "\n\n"
        \o Indent \o "Common FRED codes: UNRATE (unemployment), FPCPITOTLZGUSA (CPI inflation),\n"
        \o Indent \o "GDP, DFF (fed funds rate)\n\n"
        \o Indent \o "Return ONLY valid JSON in this exact format: "
        \o "{\"explanation\": \"why this helps\", \"series_code\": \"EXACT_FRED_CODE\"}"

(***************************************************************************)
(* The data provider's observations.                                       *)
(***************************************************************************)
ObsDates == {Ymd2Ord(2020, 6, 15), Ymd2Ord(2024, 1, 1), Ymd2Ord(2024, 5, 1)}

ObsValues == {37, 40}

Points == [date : ObsDates, value : ObsValues]

\* every window of at most MaxLen points, in any order
Windows == UNION {[1..n -> Points] : n \in 0..MaxLen}

IsAscending(w) == \A i \in 1..Len(w) - 1 : w[i].date < w[i + 1].date

\* what the provider returns for a request: the points of the requested
\* period, ordered by date ascending
ProviderWindows(start, end) ==
    {w \in Windows :
        /\ IsAscending(w)
        /\ \A i \in 1..Len(w) : start.ord <= w[i].date /\ w[i].date <= end.ord}

\* datetime.now()
Nows ==
    [ord : {Ymd2Ord(2024, 6, 15), Ymd2Ord(2024, 2, 29)}, sec : {0, 52200}]

(***************************************************************************)
(* observe and respond.                                                    *)
(***************************************************************************)
\* data.iloc[-1] and data.index[-1]: the last point, an IndexError when empty
Last(data) ==
    IF Len(data) = 0
    THEN Raise("IndexError", "single positional indexer is out-of-bounds")
    ELSE Return(data[Len(data)])

\* a summary of the first point: data.iloc[0], data.index[0]
observe_first(data, units) ==
    IF Len(data) = 0
    THEN Raise("IndexError", "single positional indexer is out-of-bounds")
    ELSE Return([current_value |-> Float(data[1].value),
                 current_date  |-> Strftime(data[1].date),
                 units         |-> units])

\* FREDAgent.observe
observe(data, units) ==
    LET last == Last(data)
    IN  IF last.kind = "raise" THEN last
        ELSE Return([current_value |-> Float(last.value.value),
                     current_date  |-> Strftime(last.value.date),
                     units         |-> units])

\* json.dumps(observations, indent=2)
JsonDumps(obs) ==
    "{\n  \"current_value\": " \o FloatRepr(obs.current_value)
        \o ",\n  \"current_date\": \"" \o obs.current_date
        \o "\",\n  \"units\": \"" \o obs.units \o "\"\n}"

RespondPrompt(question, obs) ==
    "Answer this question using the data:\nQuestion: " \o question
        \o "\nData: " \o JsonDumps(obs)
        \o "\n\nProvide a brief, clear answer citing specific numbers."

Questions == {"What is the US unemployment rate?", "How large is US GDP?"}

RespondReplies ==
    {"The unemployment rate is 4.0 Percent.", "I cannot tell from the data."}

LLMErrors == {[type |-> "ServerError", arg |-> "503 UNAVAILABLE"]}

UnknownSeries ==
    [type |-> "ValueError", arg |-> "Bad Request.  The series does not exist."]

FredUnavailable == [type |-> "URLError", arg |-> "<urlopen error timed out>"]

(***************************************************************************)
(* act, after the observations request has returned.                       *)
(***************************************************************************)
\* act without its "Latest" line: (data, units) is returned unread
act_no_latest(data, units) == Return(<<data, units>>)

\* the "Latest" line reads data.iloc[-1] and data.index[-1], then act
\* returns (data, units)
act_latest(data, units) ==
    LET last == Last(data)
    IN  IF last.kind = "raise" THEN last ELSE Return(<<data, units>>)

\* the errors the metadata request can end in
InfoErrors(series_code) ==
    IF series_code \in DOMAIN Catalog
    THEN {FredUnavailable}
    ELSE {UnknownSeries, FredUnavailable}

(***************************************************************************)
(* The state.                                                              *)
(*   self   the agent's fields, set by __init__                            *)
(*   pc     where the current answer call is                               *)
(*   frame  the local variables bound so far in the current call           *)
(*   ret    how the current call ended: not yet, a returned text, or an    *)
(*          exception that left answer                                     *)
(*   log    the current call's stage invocations, provider requests and    *)
(*          replies, and exceptions, in order                              *)
(*   ncalls the answer calls made so far                                   *)
(***************************************************************************)
VARIABLES self, pc, frame, ret, log, ncalls

vars == <<self, pc, frame, ret, log, ncalls>>

\* FREDAgent.__init__
InitSelf == [fred |-> "Fred", client |-> "genai.Client", model |-> "gemini-2.5-flash"]

Init ==
    /\ self = InitSelf
    /\ pc = "IDLE"
    /\ frame = <<>>
    /\ ret = [kind |-> "none"]
    /\ log = <<>>
    /\ ncalls = 0

\* a handler that names one class only: except ValueError
CatchesValueError(e) == e.type \in {"ValueError", "JSONDecodeError"}

\* except Exception
Catches(e) == e.type \in ExceptionSubclasses

\* an error text that names the exception's class, not its message
ErrorMsgType(e) == "Error: " \o e.type

\* error_msg = f"Error: {str(e)}"
ErrorMsg(e) == "Error: " \o Str(e)

\* a handler that swallows the exception and leaves the call where it was
ExceptRetry(e) == pc' = pc /\ ret' = ret

\* an exception e reaches the try block of answer
Except(e) ==
    IF Catches(e)
    THEN pc' = "FAILED" /\ ret' = Return(ErrorMsg(e))
    ELSE pc' = "RAISED" /\ ret' = [kind |-> "raise", exc |-> e]

\* a call that keeps the previous call's local variables
AnswerKeepsFrame(question) ==
    /\ pc \in {"IDLE", "DONE", "FAILED"}
    /\ ncalls < MaxCalls
    /\ pc' = "START"
    /\ frame' = [question |-> question] @@ frame
    /\ ret' = [kind |-> "none"]
    /\ log' = <<>>
    /\ ncalls' = ncalls + 1
    /\ UNCHANGED self

\* agent.answer(question) is called
Answer(question) ==
    /\ pc \in {"IDLE", "DONE", "FAILED"}
    /\ ncalls < MaxCalls
    /\ pc' = "START"
    /\ frame' = [question |-> question]
    /\ ret' = [kind |-> "none"]
    /\ log' = <<>>
    /\ ncalls' = ncalls + 1
    /\ UNCHANGED self

\* self.think(question): the prompt is built and sent
Think ==
    /\ pc = "START"
    /\ pc' = "SELECTING"
    /\ log' = log \o
          << [op |-> "think", question |-> frame.question],
             [op |-> "generate_content", model |-> self.model,
              contents |-> ThinkPrompt(frame.question),
              mime |-> "application/json"] >>
    /\ UNCHANGED <<self, frame, ret, ncalls>>

\* the language model replies to think; on success act is entered and the
\* metadata request is sent
ThinkReturns(text) ==
    /\ pc = "SELECTING"
    /\ LET r == ThinkResult(text)
       IN  IF r.kind = "return"
           THEN /\ pc' = "FETCHING"
                /\ frame' = frame @@ [series_code |-> r.value]
                /\ log' = log \o
                      << [op |-> "text", text |-> text],
                         [op |-> "act", series_code |-> r.value],
                         [op |-> "get_series_info", series_code |-> r.value] >>
                /\ UNCHANGED ret
           ELSE /\ Except(r.exc)
                /\ log' = log \o
                      << [op |-> "text", text |-> text],
                         [op |-> "raise", stage |-> "think", exc |-> r.exc] >>
                /\ UNCHANGED frame
    /\ UNCHANGED <<self, ncalls>>

\* the language model's call in think raises
ThinkRaises(e) ==
    /\ pc = "SELECTING"
    /\ Except(e)
    /\ log' = Append(log, [op |-> "raise", stage |-> "think", exc |-> e])
    /\ UNCHANGED <<self, frame, ncalls>>

\* get_series_info returns; units, end and start are set and the
\* observations request is sent
InfoReturns(now) ==
    /\ pc = "FETCHING"
    /\ "units" \notin DOMAIN frame
    /\ frame.series_code \in DOMAIN Catalog
    /\ LET units == Catalog[frame.series_code]
           end   == now
           start == WindowStart(end)
       IN  /\ frame' = frame @@ [units |-> units, start |-> start, end |-> end]
           /\ log' = log \o
                 << [op |-> "info", units |-> units],
                    [op |-> "now", value |-> now],
                    [op |-> "get_series", series_code |-> frame.series_code,
                     start |-> start, end |-> end] >>
    /\ UNCHANGED <<self, pc, ret, ncalls>>

\* get_series_info raises
InfoRaises(e) ==
    /\ pc = "FETCHING"
    /\ "units" \notin DOMAIN frame
    /\ e \in InfoErrors(frame.series_code)
    /\ Except(e)
    /\ log' = Append(log, [op |-> "raise", stage |-> "act", exc |-> e])
    /\ UNCHANGED <<self, frame, ncalls>>

\* get_series returns; act reads the latest point and returns, and observe
\* is entered
SeriesReturns(data) ==
    /\ pc = "FETCHING"
    /\ "units" \in DOMAIN frame
    /\ data \in ProviderWindows(frame.start, frame.end)
    /\ LET r == act_latest(data, frame.units)
       IN  IF r.kind = "return"
           THEN /\ pc' = "SUMMARIZING"
                /\ frame' = [question    |-> frame.question,
                             series_code |-> frame.series_code,
                             data        |-> r.value[1],
                             units       |-> r.value[2]]
                /\ log' = log \o
                      << [op |-> "data", data |-> data],
                         [op |-> "observe", data |-> r.value[1],
                          units |-> r.value[2]] >>
                /\ UNCHANGED ret
           ELSE /\ Except(r.exc)
                /\ log' = log \o
                      << [op |-> "data", data |-> data],
                         [op |-> "raise", stage |-> "act", exc |-> r.exc] >>
                /\ UNCHANGED frame
    /\ UNCHANGED <<self, ncalls>>

\* get_series raises
SeriesRaises(e) ==
    /\ pc = "FETCHING"
    /\ "units" \in DOMAIN frame
    /\ e = FredUnavailable
    /\ Except(e)
    /\ log' = Append(log, [op |-> "raise", stage |-> "act", exc |-> e])
    /\ UNCHANGED <<self, frame, ncalls>>

\* self.observe(data, units) runs; on success respond is entered and its
\* prompt is sent
Observe ==
    /\ pc = "SUMMARIZING"
    /\ LET r == observe(frame.data, frame.units)
       IN  IF r.kind = "return"
           THEN /\ pc' = "RESPONDING"
                /\ frame' = frame @@ [observations |-> r.value]
                /\ log' = log \o
                      << [op |-> "respond", question |-> frame.question,
                          observations |-> r.value],
                         [op |-> "generate_content", model |-> self.model,
                          contents |-> RespondPrompt(frame.question, r.value),
                          mime |-> ""] >>
                /\ UNCHANGED ret
           ELSE /\ Except(r.exc)
                /\ log' = Append(log, [op |-> "raise", stage |-> "observe",
                                       exc |-> r.exc])
                /\ UNCHANGED frame
    /\ UNCHANGED <<self, ncalls>>

\* the language model replies to respond; answer returns the reply
RespondReturns(text) ==
    /\ pc = "RESPONDING"
    /\ pc' = "DONE"
    /\ frame' = frame @@ [response |-> text]
    /\ ret' = Return(text)
    /\ log' = Append(log, [op |-> "text", text |-> text])
    /\ UNCHANGED <<self, ncalls>>

\* the language model's call in respond raises
RespondRaises(e) ==
    /\ pc = "RESPONDING"
    /\ Except(e)
    /\ log' = Append(log, [op |-> "raise", stage |-> "respond", exc |-> e])
    /\ UNCHANGED <<self, frame, ncalls>>

Next ==
    \/ \E question \in Questions : Answer(question)
    \/ Think
    \/ \E text \in ThinkReplies : ThinkReturns(text)
    \/ \E e \in LLMErrors : ThinkRaises(e)
    \/ \E now \in Nows : InfoReturns(now)
    \/ \E e \in {UnknownSeries, FredUnavailable} : InfoRaises(e)
    \/ \E data \in Windows : SeriesReturns(data)
    \/ \E e \in {FredUnavailable} : SeriesRaises(e)
    \/ Observe
    \/ \E text \in RespondReplies : RespondReturns(text)
    \/ \E e \in LLMErrors : RespondRaises(e)

Spec == Init /\ [][Next]_vars

\* the program is one synchronous thread and each provider call returns or
\* raises: a step that can be taken is taken
FairSpec == Spec /\ WF_vars(Next)

(***************************************************************************)
(* Reading the log of the current call.                                    *)
(***************************************************************************)
Ops(op) == {i \in DOMAIN log : log[i].op = op}

Has(op) == Ops(op) # {}

\* the text begins with "Error:"
IsErrorText(t) == Len(t) >= 6 /\ SubSeq(t, 1, 6) = "Error:"

\* the language model has replied to think's request (the log's second
\* entry) with this text
SelectorReplied(text) ==
    Len(log) >= 3 /\ log[3].op = "text" /\ log[3].text = text

\* a data-provider request was made in this call
DataProviderCalled == Has("get_series_info") \/ Has("get_series")

(***************************************************************************)
(* The safety half of C1: the call is never left by an exception, a call   *)
(* that is under way can always go on, and a finished call has returned a  *)
(* text: the Responder's reply, or an error message.                       *)
(***************************************************************************)
C1_AnswerNeverRaises ==
    /\ pc # "RAISED"
    /\ ret.kind # "raise"
    /\ pc \in {"START", "SELECTING", "FETCHING", "SUMMARIZING", "RESPONDING"}
          => ret.kind = "none" /\ ENABLED Next
    /\ pc = "DONE"
          => /\ ret.kind = "return"
             /\ ret.value \in RespondReplies
             /\ ~Has("raise")
    /\ pc = "FAILED" => ret.kind = "return" /\ IsErrorText(ret.value)
    /\ Has("raise") => pc = "FAILED"

(***************************************************************************)
(* C1.  answer never raises past its own boundary: whatever the providers  *)
(* do (each call returns or raises), no exception leaves answer, and every *)
(* call that starts finishes by returning a text, the Responder's reply or *)
(* an error message.                                                       *)
(***************************************************************************)
C1_AnswerAlwaysReturnsText ==
    /\ []C1_AnswerNeverRaises
    /\ (pc = "START") ~> (pc \in {"DONE", "FAILED"} /\ ret.kind = "return")

\* a provider raised in the last stage and answer returned an error message
C1_Witness ==
    /\ pc = "FAILED"
    /\ ret.kind = "return"
    /\ \E i \in Ops("raise") : log[i].stage = "respond"

\* the reply parses and holds no series_code
OmitsSeriesCode(text) ==
    /\ JsonLoads(text).kind = "return"
    /\ \/ JsonLoads(text).value.type # "dict"
       \/ "series_code" \notin DOMAIN JsonLoads(text).value.items

(***************************************************************************)
(* C2.  When the Selector's reply parses but has no series_code, answer    *)
(* returns an error message, and the run makes no data-provider call and   *)
(* no second language-model call.                                          *)
(***************************************************************************)
C2_MissingCodeFailsFast ==
    \A text \in ThinkReplies :
        SelectorReplied(text) /\ OmitsSeriesCode(text)
        => /\ OmitsSeriesCode(NoCodeJson)
           /\ pc = "FAILED"
           /\ ret.kind = "return" /\ IsErrorText(ret.value)
           /\ ~DataProviderCalled
           /\ ~Has("act") /\ ~Has("respond")
           /\ Cardinality(Ops("generate_content")) = 1

C2_Witness ==
    /\ SelectorReplied(NoCodeJson)
    /\ pc = "FAILED"
    /\ ret = Return("Error: 'series_code'")

(***************************************************************************)
(* C3.  When the data provider returns zero observations, answer returns   *)
(* an error message, the Responder is never invoked, and the failure is    *)
(* raised by act itself, before observe runs.                              *)
(***************************************************************************)
C3_EmptyWindowFailsInAct ==
    (\E i \in Ops("data") : Len(log[i].data) = 0)
        => /\ pc = "FAILED"
           /\ ret.kind = "return" /\ IsErrorText(ret.value)
           /\ ~Has("respond")
           /\ ~Has("observe")
           /\ \E j \in Ops("raise") : log[j].stage = "act"

C3_Witness ==
    /\ \E i \in Ops("data") : Len(log[i].data) = 0
    /\ pc = "FAILED"
    /\ ret = Return("Error: single positional indexer is out-of-bounds")

(***************************************************************************)
(* C4.  Whenever a stage raises an exception with message m, answer        *)
(* returns exactly "Error: " followed by m and nothing runs after the      *)
(* failure; when the Selector's reply is malformed JSON the result begins  *)
(* with "Error:" and no data-provider call was made.                       *)
(***************************************************************************)
C4_ErrorIsPrefixedMessage ==
    /\ \A i \in Ops("raise") :
          /\ i = Len(log)
          /\ pc = "FAILED"
          /\ ret = Return("Error: " \o Str(log[i].exc))
    /\ SelectorReplied(MalformedJson)
          => /\ pc = "FAILED"
             /\ ret = Return("Error: Expecting value: line 1 column 1 (char 0)")
             /\ IsErrorText(ret.value)
             /\ ~DataProviderCalled

C4_Witness ==
    /\ SelectorReplied(MalformedJson)
    /\ pc = "FAILED"
    /\ IsErrorText(ret.value)
    /\ log[Len(log)] = [op |-> "raise", stage |-> "think",
                        exc |-> [type |-> "JSONDecodeError",
                                 arg |-> "Expecting value: line 1 column 1 (char 0)"]]

(***************************************************************************)
(* C6.  Whenever act is invoked, the series_code it receives was present   *)
(* in the parsed reply and is a non-empty text; a reply whose series_code  *)
(* is absent or empty makes answer return an error message without a       *)
(* data-provider call.                                                     *)
(***************************************************************************)
C6_ActGetsNonEmptyCode ==
    /\ \A i \in Ops("act") :
          /\ log[i].series_code # ""
          /\ SelectorReplied(SelectionJson(log[i].series_code))
    /\ SelectorReplied(NoCodeJson) \/ SelectorReplied(SelectionJson(""))
          => /\ pc = "FAILED"
             /\ IsErrorText(ret.value)
             /\ ~DataProviderCalled

(***************************************************************************)
(* C7.  In every successful run the Responder is called once, with the     *)
(* original question and a summary made of the last pair of the window the *)
(* observations request returned and of the units the metadata request     *)
(* returned for the series code the Selector returned; and answer returns  *)
(* the Responder's reply verbatim.                                         *)
(***************************************************************************)
TheOp(op) == log[CHOOSE i \in Ops(op) : TRUE]

C7_SuccessPassesThrough ==
    pc = "DONE" =>
        LET code == ThinkResult(log[3].text).value
            data == TheOp("data").data
            last == data[Len(data)]
            call == TheOp("respond")
        IN  /\ Cardinality(Ops("respond")) = 1
            /\ log[1].op = "think" /\ log[3].op = "text"
            /\ call.question = log[1].question
            /\ call.question = frame.question
            /\ Len(data) > 0
            /\ call.observations.current_value = last.value
            /\ call.observations.current_date = Strftime(last.date)
            /\ TheOp("get_series_info").series_code = code
            /\ TheOp("get_series").series_code = code
            /\ TheOp("info").units = Catalog[code]
            /\ call.observations.units = TheOp("info").units
            /\ log[Len(log) - 1].contents
                  = RespondPrompt(call.question, call.observations)
            /\ log[Len(log)].op = "text"
            /\ ret = Return(log[Len(log)].text)

\* the run of the unemployment question whose window ends with
\* (2024-05-01, 4.0) in Percent
C7_Witness ==
    /\ pc = "DONE"
    /\ frame.question = "What is the US unemployment rate?"
    /\ Len(frame.data) = 2
    /\ frame.data[2] = [date |-> Ymd2Ord(2024, 5, 1), value |-> 40]
    /\ TheOp("respond").observations
          = [current_value |-> 40, current_date |-> "2024-05-01", units |-> "Percent"]
    /\ log[Len(log) - 1].contents
          = "Answer this question using the data:\nQuestion: What is the US unemployment rate?\nData: {\n  \"current_value\": 4.0,\n  \"current_date\": \"2024-05-01\",\n  \"units\": \"Percent\"\n}\n\nProvide a brief, clear answer citing specific numbers."
    /\ ret = Return("The unemployment rate is 4.0 Percent.")

(***************************************************************************)
(* C8.  The observations request is issued with end = now and start = now  *)
(* minus exactly 1460 days (the time of day kept), which is not the        *)
(* calendar-aware date four years back; for now = 2024-06-15 the start is  *)
(* 2020-06-16.                                                             *)
(***************************************************************************)
C8_WindowIs1460Days ==
    \A i \in Ops("get_series") :
        /\ log[i - 1].op = "now"
        /\ log[i].end = log[i - 1].value
        /\ log[i].start.ord = log[i].end.ord - 1460
        /\ log[i].start.sec = log[i].end.sec
        /\ log[i].start # CalendarFourYearsBack(log[i].end)
        /\ log[i].end.ord = Ymd2Ord(2024, 6, 15)
              => Ord2Ymd(log[i].start.ord) = [y |-> 2020, m |-> 6, d |-> 16]

C8_Witness ==
    \E i \in Ops("get_series") :
        /\ Strftime(log[i].end.ord) = "2024-06-15"
        /\ Strftime(log[i].start.ord) = "2020-06-16"
        /\ Strftime(CalendarFourYearsBack(log[i].end).ord) = "2020-06-15"

(***************************************************************************)
(* The stage log and the edges of pc that C9 speaks of.                    *)
(***************************************************************************)
StageOrder == <<"think", "act", "observe", "respond">>

IsStageCall(x) == x.op \in {"think", "act", "observe", "respond"}

StageCalls == SelectSeq(log, IsStageCall)

Working == {"SELECTING", "FETCHING", "SUMMARIZING", "RESPONDING"}

C9_Stages ==
    /\ Len(StageCalls) <= 4
    /\ \A i \in 1..Len(StageCalls) : StageCalls[i].op = StageOrder[i]
    /\ pc = "IDLE" => log = <<>>
    /\ pc = "START" => Len(StageCalls) = 0
    /\ pc = "SELECTING" => Len(StageCalls) = 1
    /\ pc = "FETCHING" => Len(StageCalls) = 2
    /\ pc = "SUMMARIZING" => Len(StageCalls) = 3
    /\ pc = "RESPONDING" => Len(StageCalls) = 4
    /\ pc = "DONE"
          => Len(StageCalls) = 4 /\ log[Len(log)].op = "text" /\ ~Has("raise")
    /\ Has("raise") <=> pc = "FAILED"
    /\ pc \in {"SELECTING", "FETCHING", "RESPONDING"}
          => ENABLED (Next /\ pc' = "FAILED")
    /\ pc = "FAILED"
          => /\ Cardinality(Ops("raise")) = 1
             /\ log[Len(log)].op = "raise"
             /\ Len(StageCalls) >= 1
             /\ log[Len(log)].stage = StageOrder[Len(StageCalls)]
    /\ \A i \in Ops("get_series_info") :
          log[i].series_code \notin DOMAIN Catalog
              => /\ ~Has("info") /\ ~Has("get_series")
                 /\ ~Has("observe") /\ ~Has("respond")
                 /\ Cardinality(Ops("generate_content")) = 1

C9_Edges ==
    \/ pc' = pc /\ pc \in {"FETCHING"} /\ ncalls' = ncalls
    \/ pc \in {"IDLE", "DONE", "FAILED"} /\ pc' = "START" /\ ncalls' = ncalls + 1
    \/ /\ ncalls' = ncalls
       /\ \/ pc = "START" /\ pc' = "SELECTING"
          \/ pc = "SELECTING" /\ pc' = "FETCHING"
          \/ pc = "FETCHING" /\ pc' = "SUMMARIZING"
          \/ pc = "SUMMARIZING" /\ pc' = "RESPONDING"
          \/ pc = "RESPONDING" /\ pc' = "DONE"
          \/ pc \in Working /\ pc' = "FAILED"

C10_NothingCarriedOver ==
    /\ self = InitSelf
    /\ pc = "START"
          => /\ DOMAIN frame = {"question"}
             /\ log = <<>>
             /\ ret.kind = "none"
    /\ pc \in Working \cup {"DONE", "FAILED"}
          => /\ log[1] = [op |-> "think", question |-> frame.question]
             /\ log[2].contents = ThinkPrompt(frame.question)
    /\ \A i \in Ops("get_series_info") \cup Ops("get_series") :
          log[i].series_code = ThinkResult(log[3].text).value
    /\ pc = "DONE" => ret = Return(log[Len(log)].text)
    /\ pc = "FAILED" => ret = Return("Error: " \o Str(log[Len(log)].exc))

\* a second call has ended on the same agent
C10_Witness == ncalls = 2 /\ pc = "DONE" /\ self = InitSelf

(***************************************************************************)
(* The Summarizer alone: observe applied to any window (in any order, the  *)
(* empty one included) and any units.                                      *)
(***************************************************************************)
InitObserve ==
    /\ self = InitSelf
    /\ pc = "SUMMARIZING"
    /\ frame \in [data : Windows, units : {Catalog[c] : c \in DOMAIN Catalog}]
    /\ ret = [kind |-> "none"]
    /\ log = <<>>
    /\ ncalls = 0

ObserveOnly ==
    /\ pc = "SUMMARIZING"
    /\ pc' = "OBSERVED"
    /\ ret' = observe(frame.data, frame.units)
    /\ UNCHANGED <<self, frame, log, ncalls>>

NextObserve == ObserveOnly

SpecObserve == InitObserve /\ [][NextObserve]_vars

MaxDate(w) == CHOOSE d \in {w[i].date : i \in DOMAIN w} :
                  \A i \in DOMAIN w : w[i].date <= d

IsNonDescending(w) == \A i \in 1..Len(w) - 1 : w[i].date <= w[i + 1].date

(***************************************************************************)
(* C5 as stated.  For every non-empty window the summary's current_value   *)
(* and current_date are those of a point with the greatest timestamp,      *)
(* whatever the order of the points.                                       *)
(***************************************************************************)
C5_SummaryIsChronologicallyLast ==
    pc = "OBSERVED" /\ Len(frame.data) > 0
        => /\ ret.kind = "return"
           /\ \E i \in DOMAIN frame.data :
                 /\ frame.data[i].date = MaxDate(frame.data)
                 /\ ret.value.current_value = frame.data[i].value
                 /\ ret.value.current_date = Strftime(frame.data[i].date)

(***************************************************************************)
(* C5 as amended.  For every non-empty window the summary's current_value  *)
(* and current_date are those of the window's last element and its units   *)
(* are the units given; when the window is in ascending timestamp order    *)
(* that element is the chronologically last point.                         *)
(***************************************************************************)
C5_SummaryIsLastElement ==
    pc = "OBSERVED" /\ Len(frame.data) > 0
        => LET last == frame.data[Len(frame.data)]
           IN  /\ ret = Return([current_value |-> last.value,
                                current_date  |-> Strftime(last.date),
                                units         |-> frame.units])
               /\ IsNonDescending(frame.data) => last.date = MaxDate(frame.data)

C5_Witness ==
    /\ pc = "OBSERVED"
    /\ frame.data = << [date |-> Ymd2Ord(2024, 1, 1), value |-> 37],
                       [date |-> Ymd2Ord(2024, 5, 1), value |-> 40] >>
    /\ ret = Return([current_value |-> 40, current_date |-> "2024-05-01",
                     units |-> frame.units])

=============================================================================
